---- MODULE Spec2Model ----
(***************************************************************************)
(* Model of workflow/utils.py: the schema synthesis pipeline               *)
(* (create_pydantic_model and its helpers) run by concurrent workers over  *)
(* a shared working directory and a shared sys.path, and the configuration *)
(* lookup get_workflow_config over the cache and the database.             *)
(***************************************************************************)
EXTENDS Integers, Sequences, FiniteSets, TLC

\* ---------------------------------------------------------------- bounds
\* size of the pool the random temporary-file stems are drawn from
NumNames == 2
\* total number of create_pydantic_model calls started in one behaviour
MaxCalls == 2
\* number of lookups of get_workflow_config in one behaviour
MaxLookups == 2
\* number of times one WorkflowConfig row is saved (created, then updated)
MaxVersion == 2

Workers == {"w1", "w2"}
\* the stem of a temporary file name (tmp + random characters), also the module name
Stems == {ToString(n) : n \in 1..NumNames}
Suffixes == {"json", "py"}
FileIds == Stems \X Suffixes

None == "None"

\* contents of a file; NoFile marks a name with no file behind it
EmptyContent == [from |-> None, form |-> "empty"]
NoFile == [from |-> None, form |-> "absent"]

\* jsonData values: two distinct serializable shapes and one that json.dump rejects
Samples == {"flat", "nested", "bad"}

\* the working directory os.getcwd() the temporary files are created in
Cwd == "cwd"

\* Exit behaviours of the datamodel-codegen subprocess.
\*   ok       exit 0, source defining Model written to --output
\*   nomodel  exit 0, valid source whose root type is not named Model
\*   invalid  exit 0, text that does not execute
\*   error    nonzero exit (also: tool not found, the shell exits 127), nothing written
\*   hang     the subprocess never exits
ToolOutcomes == {"ok", "nomodel", "invalid", "error", "hang"}

VARIABLES
    pc,         \* position of each worker inside create_pydantic_model
    jsonData,     \* jsonData of the call in progress
    tmp_json,   \* stem of tmp_json.name
    tmp_py,     \* stem of tmp_py.name
    genStatus,  \* how subprocess.run ended for this call
    Model,      \* local Model of create_pydantic_model
    loaded,     \* modules executed by this call, in order
    result,     \* what the call handed to its caller
    files,      \* the working directory: file id -> content
    sys_path,   \* sys.path
    everUsed,   \* history: file ids created so far
    calls,      \* number of calls started
    cache,      \* django cache: key id -> cached object
    db,         \* ids of WorkflowConfig rows
    cfgResult,  \* outcome of the last get_workflow_config
    lookups     \* number of lookups made

pipeVars == <<pc, jsonData, tmp_json, tmp_py, genStatus, Model, loaded,
              result, files, sys_path, everUsed, calls>>
cfgVars == <<cache, db, cfgResult, lookups>>
vars == <<pc, jsonData, tmp_json, tmp_py, genStatus, Model, loaded,
          result, files, sys_path, everUsed, calls, cache, db, cfgResult, lookups>>

\* ------------------------------------------------------- file operations
\* variant of FreshStems without the test for an existing file
FreshStemsAny(fs, suffix) == Stems

\* names NamedTemporaryFile can pick: a random stem whose file does not exist
\* (the file is opened with O_EXCL, an existing name is retried)
FreshStems(fs, suffix) == {n \in Stems : fs[<<n, suffix>>] = NoFile}

\* variant of Release for delete=False: the file stays
ReleaseKeep(fs, f) == fs

\* leaving the `with` block of a delete=True temporary file removes it
Release(fs, f) == [fs EXCEPT ![f] = NoFile]


FilesPresent == {f \in FileIds : files[f] # NoFile}

\* json.dump accepts the value
Serializable(s) == s # "bad"

\* ------------------------------------------------ the generation tool
\* what datamodel-codegen leaves in --output, given what it read from --input
Codegen(input, outcome, before) ==
    CASE outcome \in {"ok", "nomodel", "invalid"} -> [from |-> input.from, form |-> outcome]
      [] OTHER -> before

\* subprocess.run(check=True) raises CalledProcessError on a nonzero exit
ExitsNonzero(outcome) == outcome = "error"

NoFields == << >>
Field(n, t) == [name |-> n, type |-> t]
Decl(n, b, fs) == [name |-> n, bases |-> b, fields |-> fs]

\* the class statements of the generated text, in the order they are written
Decls(content) ==
    CASE content.form = "ok" /\ content.from = "flat" ->
            << Decl("Model", {"BaseModel"},
                    << Field("question", "str"), Field("score", "float") >>) >>
      [] content.form = "ok" /\ content.from = "nested" ->
            << Decl("Tag", {"BaseModel"}, << Field("k", "int") >>),
               Decl("Kind", {"Enum"}, NoFields),
               Decl("Model", {"BaseModel"},
                    << Field("tags", "List[Tag]"), Field("kind", "Kind") >>) >>
      [] content.form = "nomodel" ->
            << Decl("Root", {"BaseModel"}, << Field("a", "int") >>) >>
      [] OTHER -> << >>

\* names the generated text imports
Imports(content) ==
    CASE content.form = "ok" /\ content.from = "flat" -> {"BaseModel"}
      [] content.form = "ok" /\ content.from = "nested" ->
            {"BaseModel", "RootModel", "Enum", "List"}
      [] content.form = "nomodel" -> {"BaseModel"}
      [] OTHER -> {}

\* the text executes (an empty file is a valid empty module)
Executes(content) == content.form # "invalid"

\* ------------------------------------------------ python objects
\* library objects importable inside a unit: their __module__ and bases
LibIsClass(n) == n # "List"
LibModule(n) ==
    CASE n = "BaseModel" -> "pydantic.main"
      [] n = "RootModel" -> "pydantic.root_model"
      [] n = "Enum" -> "enum"
      [] OTHER -> "typing"
LibBases(n) == IF n = "RootModel" THEN {"BaseModel"} ELSE {}

\* order of str comparison on the attribute names that occur
NameRank(n) ==
    CASE n = "BaseModel" -> 1
      [] n = "Enum" -> 2
      [] n = "Kind" -> 3
      [] n = "List" -> 4
      [] n = "Model" -> 5
      [] n = "Root" -> 6
      [] n = "RootModel" -> 7
      [] OTHER -> 8

Range(s) == {s[i] : i \in DOMAIN s}

\* module_from_spec + exec_module: the namespace of the executed module.
\* A class statement sets __module__ to the name the module is executed under.
exec_module(module_name, content) ==
    [name |-> module_name,
     src |-> content,
     members |->
        {[attr |-> n, isclass |-> LibIsClass(n), module |-> LibModule(n),
          bases |-> LibBases(n), fields |-> NoFields] : n \in Imports(content)}
        \cup
        {[attr |-> d.name, isclass |-> TRUE, module |-> module_name,
          bases |-> d.bases, fields |-> d.fields] : d \in Range(Decls(content))}]

\* the Python value None where a class object is expected
NoneObj == [attr |-> None, isclass |-> FALSE, module |-> None, bases |-> {}, fields |-> NoFields]

\* getattr(module, name, None)
getattr_or_none(module, name) ==
    IF \E m \in module.members : m.attr = name
    THEN CHOOSE m \in module.members : m.attr = name
    ELSE NoneObj

\* issubclass(obj, base_class), bases resolved in the module's namespace
RECURSIVE IsSubclassOf(_, _, _, _)
IsSubclassOf(cname, base, members, depth) ==
    \/ cname = base
    \/ /\ depth > 0
       /\ \E m \in members :
            /\ m.attr = cname
            /\ \E b \in m.bases : IsSubclassOf(b, base, members, depth - 1)

IsSubclass(obj, base, module) ==
    IsSubclassOf(obj.attr, base, module.members, Cardinality(module.members))

\* variant of SortByName that yields the names in descending order
RECURSIVE SortByNameDesc(_)
SortByNameDesc(S) ==
    IF S = {} THEN << >>
    ELSE LET hi == CHOOSE m \in S : \A o \in S : NameRank(m.attr) >= NameRank(o.attr)
         IN  <<hi>> \o SortByNameDesc(S \ {hi})

\* inspect.getmembers(module, inspect.isclass): the classes, sorted by name
RECURSIVE SortByName(_)
SortByName(S) ==
    IF S = {} THEN << >>
    ELSE LET lo == CHOOSE m \in S : \A o \in S : NameRank(m.attr) <= NameRank(o.attr)
         IN  <<lo>> \o SortByName(S \ {lo})

getmembers(module) == SortByName({m \in module.members : m.isclass})

\* field_type.__name__ if hasattr(field_type, "__name__") else repr(field_type)
HasDunderName(t) == t \in {"str", "float", "int", "Kind"}
field_type_name(t) == [text |-> t, repr |-> ~HasDunderName(t)]

HeaderLine(name, base) == [k |-> "class", name |-> name, arg |-> [text |-> base, repr |-> FALSE]]
BlankLine == [k |-> "blank", name |-> "", arg |-> [text |-> "", repr |-> FALSE]]
FieldLine(f) == [k |-> "field", name |-> f.name, arg |-> field_type_name(f.type)]

\* variant of Qualifies without the __module__ test
QualifiesAnyModule(obj, base_class, module) == IsSubclass(obj, base_class, module)

\* the condition of line 112
Qualifies(obj, base_class, module) ==
    IsSubclass(obj, base_class, module) /\ obj.module = module.name

ClassBlock(obj, base_class) ==
    <<BlankLine, HeaderLine(obj.attr, base_class)>>
        \o [i \in 1..Len(obj.fields) |-> FieldLine(obj.fields[i])]

RECURSIVE class_details(_, _, _)
class_details(objs, base_class, module) ==
    IF objs = << >> THEN << >>
    ELSE (IF Qualifies(Head(objs), base_class, module)
          THEN ClassBlock(Head(objs), base_class) ELSE << >>)
         \o class_details(Tail(objs), base_class, module)

\* get_classes_from_module applied to an executed module
get_classes_from_module(module, base_class) ==
    class_details(getmembers(module), base_class, module)

\* ------------------------------------------------ configuration lookup
ConfigIds == {"c1", "c2"}

\* a WorkflowConfig object as saved for the version-th time; NoConfig is Python's None
\* (cache.get on a missing key) and marks a row that does not exist
Config(i, version) == [id |-> i, version |-> version]
NoConfig == [id |-> None, version |-> 0]

NoLookup == [kind |-> "none", id |-> None, value |-> NoConfig]
Http404(i) == [kind |-> "Http404", id |-> i, value |-> NoConfig]
ReturnedConfig(i, c) == [kind |-> "returned", id |-> i, value |-> c]

\* get_object_or_404(WorkflowConfig, id=...): the row, or Http404 raised
RowExists(rows, i) == rows[i] # NoConfig

\* line 29-31: the row get_object_or_404 fetched is not assigned, config is returned
OnMiss(config, row) == config

\* ------------------------------------------------ create_pydantic_model
NoResult == [kind |-> "none", model |-> NoneObj, text |-> << >>, exc |-> None]
Returned(m, t) == [kind |-> "returned", model |-> m, text |-> t, exc |-> None]
Raised(e) == [kind |-> "raised", model |-> NoneObj, text |-> << >>, exc |-> e]

JsonFile(w) == <<tmp_json[w], "json">>
PyFile(w) == <<tmp_py[w], "py">>

\* leaving both `with` blocks, inner first
ReleaseBoth(fs, w) == Release(Release(fs, PyFile(w)), JsonFile(w))

Init ==
    /\ pc = [w \in Workers |-> "idle"]
    /\ jsonData = [w \in Workers |-> None]
    /\ tmp_json = [w \in Workers |-> None]
    /\ tmp_py = [w \in Workers |-> None]
    /\ genStatus = [w \in Workers |-> "none"]
    /\ Model = [w \in Workers |-> NoneObj]
    /\ loaded = [w \in Workers |-> << >>]
    /\ result = [w \in Workers |-> NoResult]
    /\ files = [f \in FileIds |-> NoFile]
    /\ sys_path = << "site-packages" >>
    /\ everUsed = {}
    /\ calls = 0
    /\ cache = [i \in ConfigIds |-> NoConfig]
    /\ db = [i \in ConfigIds |-> NoConfig]
    /\ cfgResult = NoLookup
    /\ lookups = 0

\* lines 53-57: the call starts, tmp_json is created
OpenJson(w, s) ==
    /\ pc[w] = "idle"
    /\ calls < MaxCalls
    /\ \E n \in FreshStems(files, "json") :
        /\ tmp_json' = [tmp_json EXCEPT ![w] = n]
        /\ files' = [files EXCEPT ![<<n, "json">>] = EmptyContent]
        /\ everUsed' = everUsed \cup {<<n, "json">>}
    /\ jsonData' = [jsonData EXCEPT ![w] = s]
    /\ Model' = [Model EXCEPT ![w] = NoneObj]
    /\ calls' = calls + 1
    /\ pc' = [pc EXCEPT ![w] = "dump"]
    /\ UNCHANGED <<tmp_py, genStatus, loaded, result, sys_path>>
    /\ UNCHANGED cfgVars

\* lines 58-59: json.dump; a TypeError leaves the outer `with`
DumpJson(w) ==
    /\ pc[w] = "dump"
    /\ IF Serializable(jsonData[w])
       THEN /\ files' = [files EXCEPT ![JsonFile(w)] = [from |-> jsonData[w], form |-> "json"]]
            /\ pc' = [pc EXCEPT ![w] = "mkpy"]
            /\ UNCHANGED result
       ELSE /\ files' = Release(files, JsonFile(w))
            /\ result' = [result EXCEPT ![w] = Raised("TypeError")]
            /\ pc' = [pc EXCEPT ![w] = "done"]
    /\ UNCHANGED <<jsonData, tmp_json, tmp_py, genStatus, Model, loaded,
                   sys_path, everUsed, calls>>
    /\ UNCHANGED cfgVars

\* lines 61-63: tmp_py is created
OpenPy(w) ==
    /\ pc[w] = "mkpy"
    /\ \E n \in FreshStems(files, "py") :
        /\ tmp_py' = [tmp_py EXCEPT ![w] = n]
        /\ files' = [files EXCEPT ![<<n, "py">>] = EmptyContent]
        /\ everUsed' = everUsed \cup {<<n, "py">>}
    /\ pc' = [pc EXCEPT ![w] = "run"]
    /\ UNCHANGED <<jsonData, tmp_json, genStatus, Model, loaded, result,
                   sys_path, calls>>
    /\ UNCHANGED cfgVars

\* where control goes when subprocess.run ends as `outcome`:
\* a zero exit and a caught CalledProcessError both fall through to line 74,
\* a subprocess that never exits never returns (run is given no timeout)
AfterRun(outcome) == IF outcome = "hang" THEN "blocked" ELSE "path"

\* lines 64-72: the tool runs on the two paths
RunCodegen(w, outcome) ==
    /\ pc[w] = "run"
    /\ files' = [files EXCEPT ![PyFile(w)] = Codegen(files[JsonFile(w)], outcome, @)]
    /\ genStatus' = [genStatus EXCEPT ![w] =
            IF outcome = "hang" THEN "running"
            ELSE IF ExitsNonzero(outcome) THEN "failed" ELSE "ok"]
    /\ pc' = [pc EXCEPT ![w] = AfterRun(outcome)]
    /\ UNCHANGED <<jsonData, tmp_json, tmp_py, Model, loaded, result,
                   sys_path, everUsed, calls>>
    /\ UNCHANGED cfgVars

\* lines 74-75, 83-86: the test `directory not in sys.path`
CheckSysPath(w) ==
    /\ pc[w] = "path"
    /\ pc' = [pc EXCEPT ![w] = IF Cwd \in Range(sys_path) THEN "exec" ELSE "append"]
    /\ UNCHANGED <<jsonData, tmp_json, tmp_py, genStatus, Model, loaded, result,
                   files, sys_path, everUsed, calls>>
    /\ UNCHANGED cfgVars

\* line 87: sys.path.append(directory)
AppendSysPath(w) ==
    /\ pc[w] = "append"
    /\ sys_path' = Append(sys_path, Cwd)
    /\ pc' = [pc EXCEPT ![w] = "exec"]
    /\ UNCHANGED <<jsonData, tmp_json, tmp_py, genStatus, Model, loaded,
                   result, files, everUsed, calls>>
    /\ UNCHANGED cfgVars

\* lines 89-94: the generated file is executed as module <stem>, Model is looked up;
\* an exception of exec_module leaves both `with` blocks and reaches the caller
import_model_from_generated_file(w) ==
    /\ pc[w] = "exec"
    /\ IF Executes(files[PyFile(w)])
       THEN LET module == exec_module(tmp_py[w], files[PyFile(w)])
            IN  /\ loaded' = [loaded EXCEPT ![w] = Append(@, module)]
                /\ Model' = [Model EXCEPT ![w] = getattr_or_none(module, "Model")]
                /\ pc' = [pc EXCEPT ![w] = "classes"]
                /\ UNCHANGED <<files, result>>
       ELSE /\ files' = ReleaseBoth(files, w)
            /\ result' = [result EXCEPT ![w] = Raised("SyntaxError")]
            /\ pc' = [pc EXCEPT ![w] = "done"]
            /\ UNCHANGED <<loaded, Model>>
    /\ UNCHANGED <<jsonData, tmp_json, tmp_py, genStatus, sys_path,
                   everUsed, calls>>
    /\ UNCHANGED cfgVars

\* lines 77-79, 97-122: the file is executed again, its classes are described,
\* both `with` blocks are left and (Model, class_string) is returned
DescribeClasses(w) ==
    /\ pc[w] = "classes"
    /\ IF Executes(files[PyFile(w)])
       THEN LET module == exec_module(tmp_py[w], files[PyFile(w)])
            IN  /\ loaded' = [loaded EXCEPT ![w] = Append(@, module)]
                /\ result' = [result EXCEPT ![w] =
                        Returned(Model[w], get_classes_from_module(module, "BaseModel"))]
       ELSE /\ result' = [result EXCEPT ![w] = Raised("SyntaxError")]
            /\ UNCHANGED loaded
    /\ files' = ReleaseBoth(files, w)
    /\ pc' = [pc EXCEPT ![w] = "done"]
    /\ UNCHANGED <<jsonData, tmp_json, tmp_py, genStatus, Model, sys_path,
                   everUsed, calls>>
    /\ UNCHANGED cfgVars

\* the caller takes the outcome; the worker is free for another call
Finish(w) ==
    /\ pc[w] = "done"
    /\ pc' = [pc EXCEPT ![w] = "idle"]
    /\ jsonData' = [jsonData EXCEPT ![w] = None]
    /\ tmp_json' = [tmp_json EXCEPT ![w] = None]
    /\ tmp_py' = [tmp_py EXCEPT ![w] = None]
    /\ genStatus' = [genStatus EXCEPT ![w] = "none"]
    /\ Model' = [Model EXCEPT ![w] = NoneObj]
    /\ loaded' = [loaded EXCEPT ![w] = << >>]
    /\ result' = [result EXCEPT ![w] = NoResult]
    /\ UNCHANGED <<files, sys_path, everUsed, calls>>
    /\ UNCHANGED cfgVars

\* the steps of a call in progress
CallStep(w) ==
    \/ DumpJson(w)
    \/ OpenPy(w)
    \/ \E o \in ToolOutcomes : RunCodegen(w, o)
    \/ CheckSysPath(w)
    \/ AppendSysPath(w)
    \/ import_model_from_generated_file(w)
    \/ DescribeClasses(w)
    \/ Finish(w)

Step(w) ==
    \/ \E s \in Samples : OpenJson(w, s)
    \/ CallStep(w)

Next == \E w \in Workers : Step(w)

Spec == Init /\ [][Next]_vars

\* get_workflow_config(workflow_config), lines 17-31
get_workflow_config(i) ==
    /\ lookups < MaxLookups
    /\ lookups' = lookups + 1
    /\ LET config == cache[i]
       IN  cfgResult' =
             IF config = NoConfig
             THEN IF RowExists(db, i)
                  THEN ReturnedConfig(i, OnMiss(config, db[i]))
                  ELSE Http404(i)
             ELSE ReturnedConfig(i, config)
    /\ UNCHANGED <<cache, db>>
    /\ UNCHANGED pipeVars

\* dehydrate_cache(key_pattern), lines 34-50, for the key of one config
dehydrate_cache(i) ==
    /\ cache[i] # NoConfig
    /\ cache' = [cache EXCEPT ![i] = NoConfig]
    /\ UNCHANGED <<db, cfgResult, lookups>>
    /\ UNCHANGED pipeVars

\* create_workflow_config / update_workflow_config: serializer.save()
SaveConfig(i) ==
    /\ db[i].version < MaxVersion
    /\ db' = [db EXCEPT ![i] = Config(i, @.version + 1)]
    /\ UNCHANGED <<cache, cfgResult, lookups>>
    /\ UNCHANGED pipeVars

\* the writer of the read-through cache stores the row under its key
CacheConfig(i) ==
    /\ RowExists(db, i)
    /\ cache[i] # db[i]
    /\ cache' = [cache EXCEPT ![i] = db[i]]
    /\ UNCHANGED <<db, cfgResult, lookups>>
    /\ UNCHANGED pipeVars

CfgNext ==
    \E i \in ConfigIds :
        \/ get_workflow_config(i)
        \/ dehydrate_cache(i)
        \/ SaveConfig(i)
        \/ CacheConfig(i)

CfgSpec == Init /\ [][CfgNext]_vars

\* ================================================================ claims

\* the artifacts a call in progress has open at its position
Held(w) ==
    CASE pc[w] \in {"dump", "mkpy"} -> {JsonFile(w)}
      [] pc[w] \in {"run", "blocked", "path", "append", "exec", "classes"} ->
            {JsonFile(w), PyFile(w)}
      [] OTHER -> {}

C2_GracefulDegradation ==
    \A w \in Workers :
        (pc[w] = "done" /\ genStatus[w] = "failed") =>
            /\ result[w].kind = "GenerationFailed"
            /\ Held(w) \cap FilesPresent = {}

\* C3: orchestrator state machine. After a generator failure the next step of
\* the call is Done with an error (the loader and the introspector do not run),
\* and a call whose loaded unit has no Model does not return a
\* (model, descriptor) result.
C3_FailuresGoToDone ==
    [][\A w \in Workers :
          /\ (genStatus[w] = "failed" /\ pc[w] # "done" /\ pc'[w] # pc[w]) =>
                (pc'[w] = "done" /\ result'[w].kind # "returned")
          /\ (pc[w] = "classes" /\ Model[w] = NoneObj /\ pc'[w] = "done") =>
                result'[w].kind # "returned"]_vars

\* C4: termination. Every call that has started reaches Done, also when the
\* generation tool never exits: a call in progress is never left without a next
\* step (its steps do not loop, so a call that can always step ends).
C4_Termination ==
    \A w \in Workers : pc[w] \notin {"idle", "done"} => ENABLED CallStep(w)

\* C5: a load failure is a value. A call that got as far as loading never ends
\* by an exception reaching its caller; it ends with its artifacts released.
C5_LoadFailureIsValue ==
    \A w \in Workers :
        (pc[w] = "done" /\ genStatus[w] # "none") =>
            /\ result[w].kind # "raised"
            /\ Held(w) \cap FilesPresent = {}

IsPrefix(s, t) == Len(s) <= Len(t) /\ \A i \in DOMAIN s : s[i] = t[i]
NoDuplicates(s) == \A i, j \in DOMAIN s : i # j => s[i] # s[j]

\* C6: search-path registration is race-free. Every step leaves sys.path
\* extended at its end only, and no directory is ever in it twice.
C6_SearchPathRaceFree ==
    [][IsPrefix(sys_path, sys_path') /\ NoDuplicates(sys_path')]_vars

\* the modules a call can get by executing what the tool makes of its own jsonData
\* under the name of its own source artifact
OwnModules(w) ==
    {exec_module(tmp_py[w], c) :
        c \in {EmptyContent} \cup {[from |-> jsonData[w], form |-> f] : f \in {"ok", "nomodel"}}}

\* C7: concurrency isolation. Under every interleaving, each module a call
\* executes carries the name of its own source artifact and the text generated
\* from its own jsonData, and the model and descriptor it returns are the Model
\* and the description of such a module.
C7_Isolation ==
    \A w \in Workers :
        /\ \A i \in DOMAIN loaded[w] :
              /\ loaded[w][i].name = tmp_py[w]
              /\ loaded[w][i].src.from \in {None, jsonData[w]}
        /\ (pc[w] = "done" /\ result[w].kind = "returned") =>
              /\ result[w].model \in {getattr_or_none(m, "Model") : m \in OwnModules(w)}
              /\ result[w].text \in
                    {get_classes_from_module(m, "BaseModel") : m \in OwnModules(w)}

\* two calls with different shapes have both loaded their Model and are about
\* to describe their modules
C7_Witness ==
    \E w, v \in Workers :
        /\ jsonData[w] = "flat" /\ jsonData[v] = "nested"
        /\ pc[w] = "classes" /\ pc[v] = "classes"
        /\ Model[w] # NoneObj /\ Model[v] # NoneObj
        /\ Model[w] # Model[v]

\* C8 as stated: identity uniqueness over the lifetime of the process. No file
\* name is given to a second artifact, also after the first one was released
\* (so no module name derived from a source artifact is used again).
C8_NeverReused ==
    [][\A f \in FileIds :
          (files[f] = NoFile /\ files'[f] # NoFile) => f \notin everUsed]_vars

\* C8 as amended: at every moment the artifacts of different calls in progress
\* are different files, all present, so two calls whose source artifacts exist
\* at the same time never derive the same module name.
C8_LiveNamesDistinct ==
    \A w, v \in Workers :
        /\ Held(w) \subseteq FilesPresent
        /\ w # v => Held(w) \cap Held(v) = {}
        /\ (w # v /\ PyFile(w) \in Held(w) /\ PyFile(v) \in Held(v)) =>
              tmp_py[w] # tmp_py[v]

\* two calls in progress hold an input and a source artifact each, four files
C8_Witness ==
    \E w, v \in Workers :
        /\ w # v
        /\ pc[w] = "run" /\ pc[v] = "exec"
        /\ Cardinality(FilesPresent) = 4

\* the types declared in a generated text that derive from the base type,
\* read off the class statements in their order (a base is a library model type
\* or a model type declared earlier)
RECURSIVE DeclaredModelTypes(_, _)
DeclaredModelTypes(decls, n) ==
    IF n = 0 THEN {}
    ELSE LET before == DeclaredModelTypes(decls, n - 1)
         IN  IF decls[n].bases \cap ({"BaseModel", "RootModel"} \cup before) # {}
             THEN before \cup {decls[n].name}
             ELSE before

HeaderNames(text) == {text[i].name : i \in {j \in DOMAIN text : text[j].k = "class"}}
HeaderCount(text) == Cardinality({j \in DOMAIN text : text[j].k = "class"})

\* C9: base-type exclusion. The descriptor a call returns has one class entry
\* for each type declared in the described unit that derives from BaseModel and
\* for nothing else: not for BaseModel, not for an imported type, not for a
\* declared type of another kind; with no such type it is the empty descriptor.
C9_BaseTypeExclusion ==
    \A w \in Workers :
        (pc[w] = "done" /\ result[w].kind = "returned") =>
            LET module == loaded[w][Len(loaded[w])]
                decls == Decls(module.src)
                expected == DeclaredModelTypes(decls, Len(decls))
            IN  /\ HeaderNames(result[w].text) = expected
                /\ HeaderCount(result[w].text) = Cardinality(expected)
                /\ HeaderNames(result[w].text) \cap Imports(module.src) = {}
                /\ expected = {} => result[w].text = << >>

\* a call returns the description of a unit that imports BaseModel and RootModel
\* and declares two model types and an Enum
C9_Witness ==
    \E w \in Workers :
        /\ pc[w] = "done" /\ result[w].kind = "returned"
        /\ {"BaseModel", "RootModel"} \subseteq Imports(loaded[w][Len(loaded[w])].src)
        /\ HeaderNames(result[w].text) = {"Model", "Tag"}

\* C10: get_workflow_config returns a WorkflowConfig: the cached object on a
\* hit, the row of the database on a miss; it never returns None.
C10_ReturnsConfig ==
    cfgResult.kind = "returned" =>
        /\ cfgResult.value # NoConfig
        /\ cfgResult.value.id = cfgResult.id

\* the class names of the header lines of a descriptor, in the order of the text
IsHeader(line) == line.k = "class"
HeaderSeq(text) ==
    LET hs == SelectSeq(text, IsHeader) IN [i \in DOMAIN hs |-> hs[i].name]

\* the field lines that follow the header line at position h, up to the next block
BlockLen(text, h) ==
    CHOOSE n \in 0..(Len(text) - h) :
        /\ \A i \in 1..n : text[h + i].k = "field"
        /\ (h + n = Len(text) \/ text[h + n + 1].k # "field")
BlockFields(text, h) ==
    [i \in 1..BlockLen(text, h) |-> <<text[h + i].name, text[h + i].arg.text>>]

\* the fields a class statement of the generated text declares, in their order
DeclaredFields(decls, cname) ==
    LET d == CHOOSE x \in Range(decls) : x.name = cname
    IN  [i \in DOMAIN d.fields |-> <<d.fields[i].name, d.fields[i].type>>]

\* every class block lists the fields of its class in their declaration order
FieldsInDeclarationOrder(text, decls) ==
    \A h \in DOMAIN text :
        IsHeader(text[h]) => BlockFields(text, h) = DeclaredFields(decls, text[h].name)

\* the model types among the class statements, in the order they are written
RECURSIVE DeclarationOrder(_, _)
DeclarationOrder(decls, types) ==
    IF decls = << >> THEN << >>
    ELSE (IF Head(decls).name \in types THEN <<Head(decls).name>> ELSE << >>)
         \o DeclarationOrder(Tail(decls), types)

\* C11 as stated: class enumeration order. The class blocks of a returned
\* descriptor follow the order in which the generated source declares the
\* types, and the field lines of each block follow the type's field order.
C11_DeclarationOrder ==
    \A w \in Workers :
        (pc[w] = "done" /\ result[w].kind = "returned") =>
            LET decls == Decls(loaded[w][Len(loaded[w])].src)
            IN  /\ HeaderSeq(result[w].text)
                      = DeclarationOrder(decls, DeclaredModelTypes(decls, Len(decls)))
                /\ FieldsInDeclarationOrder(result[w].text, decls)

\* C11 as amended: the class blocks of a returned descriptor are in ascending
\* order of the class names (the order of inspect.getmembers), whatever the
\* order of declaration; the field lines of each block follow the type's field
\* declaration order.
C11_NameOrder ==
    \A w \in Workers :
        (pc[w] = "done" /\ result[w].kind = "returned") =>
            LET decls == Decls(loaded[w][Len(loaded[w])].src)
                hs == HeaderSeq(result[w].text)
            IN  /\ \A i, j \in DOMAIN hs : i < j => NameRank(hs[i]) < NameRank(hs[j])
                /\ FieldsInDeclarationOrder(result[w].text, decls)

\* a call returns the descriptor of a unit that declares Tag before Model:
\* the block of Model, with its two fields, comes first
C11_Witness ==
    \E w \in Workers :
        /\ pc[w] = "done" /\ result[w].kind = "returned"
        /\ HeaderSeq(result[w].text) = <<"Model", "Tag">>
        /\ BlockFields(result[w].text, 2) = <<<<"tags", "List[Tag]">>, <<"kind", "Kind">>>>

\* C12: one unit per call. A call that returns has executed its generated
\* source exactly once: the unit whose Model it returns (the first one it
\* executed) is the unit its descriptor was extracted from (the last one).
C12_OneUnitPerCall ==
    \A w \in Workers :
        (pc[w] = "done" /\ result[w].kind = "returned") => Len(loaded[w]) = 1

====
